---------------------------- MODULE Spec2Model ----------------------------
(*
  carbon-relay-ng: the routing table (Routes: Map, KeyList, lock) with its
  Dispatch / Add / Update / Del operations, and the per-route relay task
  (Route.relay) with its connect attempts (Route.updateConn), its spool
  queue and its sink.

  Goroutines are modelled as processes with a program counter.  The
  channels of a Route (ch, shutdown, connUpdates, inConnUpdate) are
  unbuffered: a send and the matching receive of the relay's select are one
  step.  The body the relay runs for a received value (process_packet) is
  part of that step: it touches only state owned by the relay.
*)
EXTENDS Integers, Sequences, FiniteSets, Bags, TLC

\* ------------------------------------------------------------------ bounds
MaxRoutes     == 2  \* Route objects ever created (configuration and Add)
TableLines    == 1  \* TableSpec: lines the Router reads from to_dispatch
TableAdmin    == 2  \* TableSpec: admin requests served
RelayLines    == 2  \* RelaySpec: lines the Router reads from to_dispatch
RelayAdmin    == 1  \* RelaySpec: admin requests served
RelayAttempts == 2  \* RelaySpec: updateConn calls of a route in progress at a tick
RelayFails    == 1  \* RelaySpec: writes that fail or are cut short

Rids == 1..MaxRoutes

\* ------------------------------------------------------------------ inputs
Keys  == {"r1", "r2"}
Addrs == {"a1", "a2"}

\* A line is the sequence of its bytes, terminator included (handle appends it).
Texts == { <<"f", "b", "\n">>, <<"b", "\n">>, <<"x", "\n">> }

\* Pattern strings: empty, anchored literal, literal, and one that does not compile.
Patterns == { <<>>, <<"^", "f">>, <<"b">>, <<"(">> }

Nil    == "nil"
NoConn == Nil     \* a nil *net.TCPConn; a connection is known by the address dialled
NoReg  == [anch |-> FALSE, lit |-> <<"nil">>]
NoLine == [id |-> 0, txt |-> <<>>]

\* --------------------------------------------------------------- regexp
\* regexp.Compile on the fragment used here: an optional leading ^ followed by
\* literal bytes; a ( without its ) is a syntax error.
Compile(pattern) ==
    IF \E i \in 1..Len(pattern) : pattern[i] = "("
    THEN [err |-> "PatternError", reg |-> NoReg]
    ELSE IF Len(pattern) > 0 /\ pattern[1] = "^"
         THEN [err |-> Nil, reg |-> [anch |-> TRUE, lit |-> Tail(pattern)]]
         ELSE [err |-> Nil, reg |-> [anch |-> FALSE, lit |-> pattern]]

LitAt(lit, txt, off) ==
    /\ off + Len(lit) <= Len(txt)
    /\ \A i \in 1..Len(lit) : txt[off + i] = lit[i]

\* Regexp.Match: unanchored search of the literal in the bytes.
Match(reg, txt) ==
    /\ reg # NoReg
    /\ IF reg.anch
       THEN LitAt(reg.lit, txt, 0)
       ELSE \E off \in 0..Len(txt) : LitAt(reg.lit, txt, off)

\* ------------------------------------------------------------------- state
VARIABLES
    KeyList,     \* Routes.KeyList
    Map,         \* Routes.Map: key -> Route object (0: no entry)
    lock,        \* Routes.lock: "free" or its holder
    routes,      \* the Route objects: Key, Patt, Reg, Addr, Spool, running
    nRoutes,     \* Route objects created
    relay,       \* per Route: the relay goroutine: pc, conn, conn_updates
    attempts,    \* the updateConn calls in progress (a bag: calls in the same
                 \* state are interchangeable)
    open,        \* per Route: how many connections are dialled and not closed
    queue,       \* per Route: the disk queue, oldest first
    sink,        \* per Route: what Write put on the wire
    ctr,         \* per Route: the statsd counters
    nFails,      \* writes failed so far
    first_only,  \* config.First_only
    disp,        \* the Router goroutine inside Dispatch
    nLines,      \* lines read from to_dispatch
    adm,         \* the admin request being served
    nAdmin,      \* admin requests served
    hist,        \* history: what happened, for stating properties
    bud          \* the run's budget: lines, admin requests, concurrent attempts, failed writes

vars == << KeyList, Map, lock, routes, nRoutes, relay, attempts,
           open, queue, sink, ctr, nFails, first_only, disp, nLines, adm,
           nAdmin, hist, bud >>


\* ------------------------------------------------------------------ Route
NoRoute == [Key |-> Nil, Patt |-> <<>>, Reg |-> NoReg, Addr |-> Nil,
            Spool |-> FALSE, running |-> FALSE]

NoRelay == [pc |-> "none", conn |-> NoConn, conn_updates |-> 0]

NoCtr == [spool |-> 0, drop |-> 0, out |-> 0, err |-> 0]

\* (mutant) the pattern string is stored before the compile error is looked at
updatePatternStoresFirst(rt, pattern) ==
    LET c == Compile(pattern) IN
    IF c.err # Nil
    THEN [err |-> c.err, rt |-> [rt EXCEPT !.Patt = pattern]]
    ELSE [err |-> Nil, rt |-> [rt EXCEPT !.Patt = pattern, !.Reg = c.reg]]

\* Route.updatePattern on the Route value rt: the error, and rt afterwards.
updatePattern(rt, pattern) ==
    LET c == Compile(pattern) IN
    IF c.err # Nil
    THEN [err |-> c.err, rt |-> rt]
    ELSE [err |-> Nil, rt |-> [rt EXCEPT !.Patt = pattern, !.Reg = c.reg]]

NewRoute(key, patt, addr, spool) ==
    updatePattern([Key |-> key, Patt |-> <<>>, Reg |-> NoReg, Addr |-> addr,
                   Spool |-> spool, running |-> FALSE], patt)

\* An updateConn call of Route r before its first step; `by` is "go" for the
\* calls in goroutines of their own (relay's eager one, the ticker's) and
\* "Update" for the call Routes.Update makes and waits for.
NewAttempt(r, by) ==
    [r |-> r, by |-> by, pc |-> "begin", conn |-> NoConn, err |-> Nil]

\* Route.Run followed by the relay goroutine's prelude: the channels exist,
\* the relay is at its select with no connection, and the eager updateConn
\* has been started.
RunRelay == [pc |-> "run", conn |-> NoConn, conn_updates |-> 0]

\* ------------------------------------------------------------ configuration
\* The [routes] tables of the configuration file, in file order.
Configs ==
    { << [Key |-> "r1", Patt |-> <<>>, Addr |-> "a1", Spool |-> TRUE] >>,
      << [Key |-> "r1", Patt |-> <<"^", "f">>, Addr |-> "a1", Spool |-> FALSE],
         [Key |-> "r2", Patt |-> <<"b">>, Addr |-> "a2", Spool |-> FALSE] >> }

Table == [kl |-> KeyList, map |-> Map, rts |-> routes]

NoTable == [kl |-> <<>>, map |-> [k \in Keys |-> 0], rts |-> [r \in Rids |-> NoRoute]]

IdleDisp == [pc |-> "idle", i |-> 0, line |-> NoLine, routed |-> FALSE, got |-> {}]

NoPatt == <<"nil">>

IdleAdm == [pc |-> "idle", op |-> Nil, key |-> Nil, addr |-> Nil, patt |-> NoPatt,
            spool |-> FALSE, err |-> Nil, r |-> 0, res |-> NoRoute]

\* lines: lines read; admin: admin requests; att: updateConn calls of one route in
\* progress when a tick comes; fails: writes that fail or are cut short
Budget(lines, admin, att, fails) ==
    [lines |-> lines, admin |-> admin, att |-> att, fails |-> fails]

\* main: NewRoutes builds the Map from the configuration, KeyList gets the
\* keys in file order, Routes.Run starts every route; then the Router and the
\* admin listeners start.
InitWith(cfg, fo, b) ==
    /\ KeyList = [i \in 1..Len(cfg) |-> cfg[i].Key]
    /\ Map = [k \in Keys |->
                IF \E i \in 1..Len(cfg) : cfg[i].Key = k
                THEN CHOOSE i \in 1..Len(cfg) : cfg[i].Key = k
                ELSE 0]
    /\ lock = "free"
    /\ routes = [r \in Rids |->
                   IF r <= Len(cfg)
                   THEN [NewRoute(cfg[r].Key, cfg[r].Patt, cfg[r].Addr,
                                  cfg[r].Spool).rt EXCEPT !.running = TRUE]
                   ELSE NoRoute]
    /\ nRoutes = Len(cfg)
    /\ relay = [r \in Rids |-> IF r <= Len(cfg) THEN RunRelay ELSE NoRelay]
    /\ attempts = SetToBag({ NewAttempt(r, "go") : r \in 1..Len(cfg) })
    /\ open = [r \in Rids |-> 0]
    /\ queue = [r \in Rids |-> <<>>]
    /\ sink = [r \in Rids |-> <<>>]
    /\ ctr = [r \in Rids |-> NoCtr]
    /\ nFails = 0
    /\ first_only = fo
    /\ disp = IdleDisp
    /\ nLines = 0
    /\ adm = IdleAdm
    /\ nAdmin = 0
    /\ hist = [taken |-> [r \in Rids |-> {}], disc |-> [r \in Rids |-> {}],
               before |-> NoTable, dtable |-> NoTable]
    /\ bud = b

\* hist.taken[r]: the ids of the lines the relay of r took off its ch
\* hist.disc[r]:  the ids of the lines the relay of r took off its ch while it
\*                had no connection
\* hist.before:   the table when the admin operation in progress, or the
\*                failed one that returned last, took the lock
\* hist.dtable:   the table when the Dispatch in progress took the lock

\* The panic in Dispatch ends the process, and every goroutine with it.
Crashed == disp.pc = "crash"

\* ------------------------------------------------------------------ relay
\* What the relay goroutine of a Route owns and process_packet works on.
Local(r) == [conn |-> relay[r].conn, open |-> open[r], queue |-> queue[r],
             sink |-> sink[r], ctr |-> ctr[r]]

\* The outcomes of conn.Write: all bytes written; an error (nothing on the
\* wire); a short count without error (some of the bytes on the wire).
WriteOutcomes == {"ok", "err", "short"}

\* (mutant) a route that does not spool keeps the line it counts as dropped
process_packetKeepsDropped(spool, st, buf, wr) ==
    IF st.conn = NoConn
    THEN IF spool
         THEN [st EXCEPT !.ctr.spool = @ + 1, !.queue = Append(@, buf)]
         ELSE [st EXCEPT !.ctr.drop = @ + 1, !.queue = Append(@, buf)]
    ELSE IF wr = "ok"
         THEN [st EXCEPT !.ctr.out = @ + 1,
                         !.sink = Append(@, [ln |-> buf, full |-> TRUE])]
         ELSE [st EXCEPT !.ctr.out = @ + 1,
                         !.ctr.err = @ + 1,
                         !.sink = IF wr = "short"
                                  THEN Append(@, [ln |-> buf, full |-> FALSE])
                                  ELSE @,
                         !.open = @ - 1,
                         !.conn = NoConn,
                         !.queue = IF spool THEN Append(@, buf) ELSE @]

\* (mutant) the spool counter is incremented without the Put
process_packetSkipsPut(spool, st, buf, wr) ==
    IF st.conn = NoConn
    THEN IF spool
         THEN [st EXCEPT !.ctr.spool = @ + 1]
         ELSE [st EXCEPT !.ctr.drop = @ + 1]
    ELSE IF wr = "ok"
         THEN [st EXCEPT !.ctr.out = @ + 1,
                         !.sink = Append(@, [ln |-> buf, full |-> TRUE])]
         ELSE [st EXCEPT !.ctr.out = @ + 1,
                         !.ctr.err = @ + 1,
                         !.sink = IF wr = "short"
                                  THEN Append(@, [ln |-> buf, full |-> FALSE])
                                  ELSE @,
                         !.open = @ - 1,
                         !.conn = NoConn,
                         !.queue = IF spool THEN Append(@, buf) ELSE @]

\* (mutant) a line written in full is put on the queue all the same
process_packetSpoolsWritten(spool, st, buf, wr) ==
    IF st.conn = NoConn
    THEN IF spool
         THEN [st EXCEPT !.ctr.spool = @ + 1, !.queue = Append(@, buf)]
         ELSE [st EXCEPT !.ctr.drop = @ + 1]
    ELSE IF wr = "ok"
         THEN [st EXCEPT !.ctr.out = @ + 1,
                         !.sink = Append(@, [ln |-> buf, full |-> TRUE]),
                         !.queue = IF spool THEN Append(@, buf) ELSE @]
         ELSE [st EXCEPT !.ctr.out = @ + 1,
                         !.ctr.err = @ + 1,
                         !.sink = IF wr = "short"
                                  THEN Append(@, [ln |-> buf, full |-> FALSE])
                                  ELSE @,
                         !.open = @ - 1,
                         !.conn = NoConn,
                         !.queue = IF spool THEN Append(@, buf) ELSE @]

\* (mutant) a line whose write failed or was cut short is not Put
process_packetDropsFailed(spool, st, buf, wr) ==
    IF st.conn = NoConn
    THEN IF spool
         THEN [st EXCEPT !.ctr.spool = @ + 1, !.queue = Append(@, buf)]
         ELSE [st EXCEPT !.ctr.drop = @ + 1]
    ELSE IF wr = "ok"
         THEN [st EXCEPT !.ctr.out = @ + 1,
                         !.sink = Append(@, [ln |-> buf, full |-> TRUE])]
         ELSE [st EXCEPT !.ctr.out = @ + 1,
                         !.ctr.err = @ + 1,
                         !.sink = IF wr = "short"
                                  THEN Append(@, [ln |-> buf, full |-> FALSE])
                                  ELSE @,
                         !.open = @ - 1,
                         !.conn = NoConn]

\* process_packet (the closure of Route.relay) on buf, for a Route whose
\* Spool flag is `spool`, the Write ending as `wr`.
process_packet(spool, st, buf, wr) ==
    IF st.conn = NoConn
    THEN IF spool
         THEN [st EXCEPT !.ctr.spool = @ + 1, !.queue = Append(@, buf)]
         ELSE [st EXCEPT !.ctr.drop = @ + 1]
    ELSE IF wr = "ok"
         THEN [st EXCEPT !.ctr.out = @ + 1,
                         !.sink = Append(@, [ln |-> buf, full |-> TRUE])]
         ELSE [st EXCEPT !.ctr.out = @ + 1,
                         !.ctr.err = @ + 1,
                         !.sink = IF wr = "short"
                                  THEN Append(@, [ln |-> buf, full |-> FALSE])
                                  ELSE @,
                         !.open = @ - 1,
                         !.conn = NoConn,
                         !.queue = IF spool THEN Append(@, buf) ELSE @]

\* The relay of r runs process_packet on buf, taken from `from` ("ch" or
\* "queue"), its local state being st when it starts.
Process(r, st, buf, wr, from) ==
    LET new == process_packet(routes[r].Spool, st, buf, wr) IN
    /\ wr \in WriteOutcomes
    /\ (st.conn = NoConn) => (wr = "ok")       \* no Write takes place
    /\ (wr # "ok") => (nFails < bud.fails)
    /\ nFails' = IF wr # "ok" THEN nFails + 1 ELSE nFails
    /\ relay' = [relay EXCEPT ![r].conn = new.conn]
    /\ open'  = [open  EXCEPT ![r] = new.open]
    /\ queue' = [queue EXCEPT ![r] = new.queue]
    /\ sink'  = [sink  EXCEPT ![r] = new.sink]
    /\ ctr'   = [ctr   EXCEPT ![r] = new.ctr]
    /\ hist'  = IF from = "ch"
                THEN [hist EXCEPT !.taken[r] = @ \cup {buf.id},
                                  !.disc[r] = IF st.conn = NoConn
                                              THEN @ \cup {buf.id}
                                              ELSE @]
                ELSE hist

\* (mutant) the select reads the spool of a spooling route whatever conn is
ToUnspoolAnyConn(r) == routes[r].Spool

\* The channel the select reads the spool from: the queue's ReadChan when
\* there is a connection and the route spools, nil otherwise.
ToUnspool(r) == relay[r].conn # NoConn /\ routes[r].Spool

\* case buf := <-to_unspool
RelayUnspool(r) ==
    /\ ~Crashed
    /\ relay[r].pc = "run"
    /\ ToUnspool(r)
    /\ queue[r] # <<>>
    /\ \E wr \in WriteOutcomes :
          Process(r, [Local(r) EXCEPT !.queue = Tail(queue[r])],
                  Head(queue[r]), wr, "queue")
    /\ UNCHANGED << KeyList, Map, lock, routes, nRoutes, attempts,
                    first_only, disp, nLines, adm, nAdmin, bud >>

\* (mutant) the ticker case starts updateConn only while there is a connection
TickSpawnsConnected(r) == relay[r].conn # NoConn /\ relay[r].conn_updates = 0

\* The gate of the ticker case.
TickSpawns(r) == relay[r].conn = NoConn /\ relay[r].conn_updates = 0

\* The updateConn calls of Route r in progress.
InFlight(r) ==
    LET as == { a \in BagToSet(attempts) : a.r = r } IN
    BagCardinality([a \in as |-> attempts[a]])

\* case <-ticker.C: go route.updateConn() behind the gate, nothing otherwise.
\* The period is long: no tick comes while bud.att calls are in progress.
RelayTick(r) ==
    /\ ~Crashed
    /\ relay[r].pc = "run"
    /\ InFlight(r) < bud.att
    /\ \/ /\ TickSpawns(r)
          /\ attempts' = attempts (+) SetToBag({NewAttempt(r, "go")})
       \/ /\ ~TickSpawns(r)
          /\ UNCHANGED attempts
    /\ UNCHANGED << KeyList, Map, lock, routes, nRoutes, relay, open,
                    queue, sink, ctr, nFails, first_only, disp, nLines, adm,
                    nAdmin, hist, bud >>

\* -------------------------------------------------------------- updateConn
\* An admin operation returns err: its arguments and locals are gone, and the
\* deferred Unlock runs.
Return(err) ==
    /\ adm' = [IdleAdm EXCEPT !.pc = "ret", !.op = adm.op, !.key = adm.key, !.err = err]
    /\ lock' = "free"
    /\ hist' = IF err = Nil THEN [hist EXCEPT !.before = NoTable] ELSE hist

SetAttempt(a, b) == (attempts (-) SetToBag({a})) (+) SetToBag({b})

\* (mutant) the relay counts every message on inConnUpdate up
ConnUpdateCountsUp(n, inConnUpdate) == n + 1

\* case inConnUpdate := <-route.inConnUpdate, on conn_updates = n
ConnUpdate(n, inConnUpdate) == IF inConnUpdate THEN n + 1 ELSE n - 1

\* route.inConnUpdate <- true, received by the relay: conn_updates += 1
AttemptBegin(a) ==
    /\ ~Crashed
    /\ a.pc = "begin"
    /\ relay[a.r].pc = "run"
    /\ relay' = [relay EXCEPT ![a.r].conn_updates = ConnUpdate(@, TRUE)]
    /\ attempts' = SetAttempt(a, [a EXCEPT !.pc = "dial"])
    /\ UNCHANGED << KeyList, Map, lock, routes, nRoutes, open,
                    queue, sink, ctr, nFails, first_only, disp, nLines, adm,
                    nAdmin, hist, bud >>

DialOutcomes == {"ok", "ResolveError", "DialError"}

\* The address updateConn resolves and dials.
DialAddr(a) == routes[a.r].Addr

\* The error updateConn returns reaches a caller only from Routes.Update; the
\* go statements drop it.
Returned(a, err) == IF a.by = "Update" THEN err ELSE Nil

\* net.ResolveTCPAddr and net.DialTCP
AttemptDial(a) ==
    /\ ~Crashed
    /\ a.pc = "dial"
    /\ \E res \in DialOutcomes :
          IF res = "ok"
          THEN /\ open' = [open EXCEPT ![a.r] = @ + 1]
               /\ attempts' = SetAttempt(a, [a EXCEPT !.pc = "deliver",
                                                      !.conn = DialAddr(a)])
          ELSE /\ attempts' = SetAttempt(a, [a EXCEPT !.pc = "end",
                                                      !.err = Returned(a, res)])
               /\ UNCHANGED open
    /\ UNCHANGED << KeyList, Map, lock, routes, nRoutes, relay, queue,
                    sink, ctr, nFails, first_only, disp, nLines, adm, nAdmin,
                    hist, bud >>

\* route.connUpdates <- new_conn, received by the relay: conn = new_conn
AttemptDeliver(a) ==
    /\ ~Crashed
    /\ a.pc = "deliver"
    /\ relay[a.r].pc = "run"
    /\ relay' = [relay EXCEPT ![a.r].conn = a.conn]
    /\ attempts' = SetAttempt(a, [a EXCEPT !.pc = "end", !.conn = NoConn])
    /\ UNCHANGED << KeyList, Map, lock, routes, nRoutes, open,
                    queue, sink, ctr, nFails, first_only, disp, nLines, adm,
                    nAdmin, hist, bud >>

\* The deferred route.inConnUpdate <- false, received by the relay:
\* conn_updates -= 1; updateConn returns.  Called by Routes.Update, its
\* error is Update's, and Update's deferred Unlock runs.
AttemptEnd(a) ==
    /\ ~Crashed
    /\ a.pc = "end"
    /\ relay[a.r].pc = "run"
    /\ relay' = [relay EXCEPT ![a.r].conn_updates = ConnUpdate(@, FALSE)]
    /\ attempts' = attempts (-) SetToBag({a})
    /\ IF a.by = "Update"
       THEN Return(a.err)
       ELSE UNCHANGED << adm, lock, hist >>
    /\ UNCHANGED << KeyList, Map, routes, nRoutes, open, queue, sink, ctr,
                    nFails, first_only, disp, nLines, nAdmin, bud >>

\* ------------------------------------------------------------ Routes.lock
\* (mutant) Lock does not wait
CanLockAlways == TRUE

\* routes.lock.Lock() returns only when nobody holds the mutex.
CanLock == lock = "free"

\* --------------------------------------------------------- Routes.Dispatch
\* Router takes the next line off to_dispatch and calls Dispatch, which
\* takes the lock.
DispatchLock ==
    /\ ~Crashed
    /\ disp.pc \in {"idle", "ret"}
    /\ nLines < bud.lines
    /\ CanLock
    /\ \E txt \in Texts :
          disp' = [pc |-> "loop", i |-> 1, line |-> [id |-> nLines + 1, txt |-> txt],
                   routed |-> FALSE, got |-> {}]
    /\ nLines' = nLines + 1
    /\ lock' = "disp"
    /\ hist' = [hist EXCEPT !.dtable = Table]
    /\ UNCHANGED << KeyList, Map, routes, nRoutes, relay, attempts, open,
                    queue, sink, ctr, nFails, first_only, adm, nAdmin, bud >>

\* The index the range loop goes on with after the key at i.
NextIndex(matched) == IF matched /\ first_only THEN Len(KeyList) + 1 ELSE disp.i + 1

\* One iteration of the range over KeyList.  The Map lookup of a key without
\* an entry yields a nil *Route, and route.Reg dereferences it: the process
\* panics.  A matching route is sent the line on its ch, which its relay
\* receives and processes.
DispatchStep ==
    /\ disp.pc = "loop"
    /\ disp.i <= Len(KeyList)
    /\ LET key == KeyList[disp.i]
           r   == Map[key]
       IN
       IF r = 0
       THEN /\ disp' = [disp EXCEPT !.pc = "crash"]
            /\ UNCHANGED << relay, open, queue, sink, ctr, nFails, hist >>
       ELSE IF Match(routes[r].Reg, disp.line.txt)
            THEN /\ relay[r].pc = "run"
                 /\ \E wr \in WriteOutcomes : Process(r, Local(r), disp.line, wr, "ch")
                 /\ disp' = [disp EXCEPT !.routed = TRUE, !.got = @ \cup {r},
                                         !.i = NextIndex(TRUE)]
            ELSE /\ disp' = [disp EXCEPT !.i = NextIndex(FALSE)]
                 /\ UNCHANGED << relay, open, queue, sink, ctr, nFails, hist >>
    /\ UNCHANGED << KeyList, Map, lock, routes, nRoutes, attempts,
                    first_only, nLines, adm, nAdmin, bud >>

\* return routed, and the deferred Unlock
DispatchReturn ==
    /\ disp.pc = "loop"
    /\ disp.i > Len(KeyList)
    /\ disp' = [disp EXCEPT !.pc = "ret"]
    /\ lock' = "free"
    /\ hist' = [hist EXCEPT !.dtable = NoTable]
    /\ UNCHANGED << KeyList, Map, routes, nRoutes, relay, attempts, open,
                    queue, sink, ctr, nFails, first_only, nLines, adm, nAdmin,
                    bud >>

\* ------------------------------------------------------- the admin requests
\* tcpAddHandler, saveHandler
AddArgs == { [op |-> "add", key |-> k, patt |-> p, addr |-> "a2", spool |-> sp] :
               k \in Keys, p \in {<<>>, <<"(">>}, sp \in BOOLEAN }

\* tcpDelHandler, deleteHandler
DelArgs == { [op |-> "del", key |-> k, patt |-> NoPatt, addr |-> Nil, spool |-> FALSE] :
               k \in Keys }

\* tcpPattHandler: a pattern and no address
UpdatePattArgs ==
    { [op |-> "update", key |-> k, patt |-> p, addr |-> Nil, spool |-> FALSE] :
        k \in Keys, p \in Patterns }

\* updateHandler: an address and a pattern
UpdateAddrArgs ==
    { [op |-> "update", key |-> k, patt |-> <<"b">>, addr |-> "a2", spool |-> FALSE] :
        k \in Keys }

\* A handler calls Add, Update or Del with the arguments a, and the call takes
\* the lock.
AdminLock(a) ==
    /\ ~Crashed
    /\ adm.pc \in {"idle", "ret"}
    /\ nAdmin < bud.admin
    /\ CanLock
    /\ (a.op = "add" /\ Map[a.key] = 0) => (nRoutes < MaxRoutes)
    /\ adm' = [pc |-> a.op, op |-> a.op, key |-> a.key, addr |-> a.addr,
               patt |-> a.patt, spool |-> a.spool, err |-> Nil, r |-> 0,
               res |-> NoRoute]
    /\ nAdmin' = nAdmin + 1
    /\ lock' = "adm"
    /\ hist' = [hist EXCEPT !.before = Table]
    /\ UNCHANGED << KeyList, Map, routes, nRoutes, relay, attempts, open,
                    queue, sink, ctr, nFails, first_only, disp, nLines, bud >>

\* Routes.Add up to route.Run(): the duplicate check, NewRoute, Run.
AddNew ==
    /\ ~Crashed
    /\ adm.pc = "add"
    /\ LET new == NewRoute(adm.key, adm.patt, adm.addr, adm.spool)
           r   == nRoutes + 1
       IN
       IF Map[adm.key] # 0
       THEN /\ Return("DuplicateKey")
            /\ UNCHANGED << routes, nRoutes, relay, attempts >>
       ELSE IF new.err # Nil
            THEN /\ Return(new.err)
                 /\ UNCHANGED << routes, nRoutes, relay, attempts >>
            ELSE /\ routes' = [routes EXCEPT ![r] = [new.rt EXCEPT !.running = TRUE]]
                 /\ nRoutes' = r
                 /\ relay' = [relay EXCEPT ![r] = RunRelay]
                 /\ attempts' = attempts (+) SetToBag({NewAttempt(r, "go")})
                 /\ adm' = [adm EXCEPT !.pc = "add_insert", !.r = r]
                 /\ UNCHANGED << lock, hist >>
    /\ UNCHANGED << KeyList, Map, open, queue, sink, ctr, nFails,
                    first_only, disp, nLines, nAdmin, bud >>

\* What Routes.Add does to the table for the started route r.
AddInsert(key, r) ==
    /\ Map' = [Map EXCEPT ![key] = r]
    /\ UNCHANGED KeyList

\* Routes.Add: routes.Map[key] = route; return nil
AddDone ==
    /\ ~Crashed
    /\ adm.pc = "add_insert"
    /\ AddInsert(adm.key, adm.r)
    /\ Return(Nil)
    /\ UNCHANGED << routes, nRoutes, relay, attempts, open, queue, sink,
                    ctr, nFails, first_only, disp, nLines, nAdmin, bud >>

\* What Routes.Del does to the table for a key it found.
DelRemove(key) ==
    /\ Map' = [Map EXCEPT ![key] = 0]
    /\ UNCHANGED KeyList

\* Routes.Del up to route.Shutdown(): the lookup and delete(routes.Map, key).
DelLookup ==
    /\ ~Crashed
    /\ adm.pc = "del"
    /\ IF Map[adm.key] = 0
       THEN /\ Return("UnknownKey")
            /\ UNCHANGED << Map, KeyList >>
       ELSE /\ DelRemove(adm.key)
            /\ adm' = [adm EXCEPT !.pc = "del_shutdown", !.r = Map[adm.key]]
            /\ UNCHANGED << lock, hist >>
    /\ UNCHANGED << routes, nRoutes, relay, attempts, open, queue, sink,
                    ctr, nFails, first_only, disp, nLines, nAdmin, bud >>

\* Route.Shutdown: without a shutdown channel the route is not running;
\* otherwise route.shutdown <- true, received by the relay's select, which
\* returns.
DelShutdown ==
    /\ ~Crashed
    /\ adm.pc = "del_shutdown"
    /\ IF ~routes[adm.r].running
       THEN /\ Return("NotRunning")
            /\ UNCHANGED relay
       ELSE /\ relay[adm.r].pc = "run"
            /\ relay' = [relay EXCEPT ![adm.r].pc = "exit"]
            /\ Return(Nil)
    /\ UNCHANGED << KeyList, Map, routes, nRoutes, attempts, open, queue,
                    sink, ctr, nFails, first_only, disp, nLines, nAdmin, bud >>

\* Whether Routes.Update, given these arguments, gets to its pattern branch:
\* the address branch returns.
UpdateReachesPatt(addr, patt) == addr = Nil /\ patt # NoPatt

\* Routes.Update: the lookup; with an address, route.updateConn() is called
\* and its result returned; otherwise, with a pattern, route.updatePattern
\* compiles it and, compiled, assigns route.Patt.
UpdateLookup ==
    /\ ~Crashed
    /\ adm.pc = "update"
    /\ LET r == Map[adm.key]
           u == updatePattern(routes[r], adm.patt)
       IN
       IF r = 0
       THEN /\ Return("UnknownKey")
            /\ UNCHANGED << routes, attempts >>
       ELSE IF adm.addr # Nil
            THEN /\ attempts' = attempts (+) SetToBag({NewAttempt(r, "Update")})
                 /\ adm' = [adm EXCEPT !.pc = "update_conn", !.r = r]
                 /\ UNCHANGED << routes, lock, hist >>
            ELSE IF UpdateReachesPatt(adm.addr, adm.patt)
                 THEN IF u.err # Nil
                      THEN /\ Return(u.err)
                           /\ routes' = [routes EXCEPT ![r] = u.rt]
                           /\ UNCHANGED attempts
                      ELSE /\ routes' = [routes EXCEPT ![r].Patt = u.rt.Patt]
                           /\ adm' = [adm EXCEPT !.pc = "update_reg", !.r = r,
                                                 !.res = u.rt]
                           /\ UNCHANGED << attempts, lock, hist >>
                 ELSE /\ Return(Nil)
                      /\ UNCHANGED << routes, attempts >>
    /\ UNCHANGED << KeyList, Map, nRoutes, relay, open, queue, sink, ctr, nFails,
                    first_only, disp, nLines, nAdmin, bud >>

\* route.updatePattern: route.Reg = regex; return nil
UpdateReg ==
    /\ ~Crashed
    /\ adm.pc = "update_reg"
    /\ routes' = [routes EXCEPT ![adm.r].Reg = adm.res.Reg]
    /\ Return(Nil)
    /\ UNCHANGED << KeyList, Map, nRoutes, relay, attempts, open, queue,
                    sink, ctr, nFails, first_only, disp, nLines, nAdmin, bud >>

\* ----------------------------------------------------------- specifications
\* The routing table under its admin operations and Dispatch, each route with
\* its relay and its connect attempts; the ticker's period does not elapse and
\* no write fails within the run.
TableScenarios ==
    { <<cfg, fo>> \in Configs \X BOOLEAN : Len(cfg) > 1 \/ ~fo }

TableInit ==
    \E sc \in TableScenarios :
       InitWith(sc[1], sc[2], Budget(TableLines, TableAdmin, 0, 0))

TableNext ==
    \/ DispatchLock
    \/ DispatchStep
    \/ DispatchReturn
    \/ \E a \in AddArgs \cup DelArgs \cup UpdatePattArgs \cup UpdateAddrArgs : AdminLock(a)
    \/ AddNew
    \/ AddDone
    \/ DelLookup
    \/ DelShutdown
    \/ UpdateLookup
    \/ UpdateReg
    \/ \E r \in Rids : RelayUnspool(r)
    \/ \E a \in BagToSet(attempts) : AttemptBegin(a)
    \/ \E a \in BagToSet(attempts) : AttemptDial(a)
    \/ \E a \in BagToSet(attempts) : AttemptDeliver(a)
    \/ \E a \in BagToSet(attempts) : AttemptEnd(a)

TableSpec == TableInit /\ [][TableNext]_vars

\* One route and its relay: the ticker fires, writes fail or are cut short,
\* the admin may retarget the route (Update with an address) or delete it.
RelayConfigs ==
    { << [Key |-> "r1", Patt |-> <<>>, Addr |-> "a1", Spool |-> sp] >> : sp \in BOOLEAN }

RelayInit ==
    \E cfg \in RelayConfigs :
       InitWith(cfg, FALSE, Budget(RelayLines, RelayAdmin, RelayAttempts, RelayFails))

RelayNext ==
    \/ DispatchLock
    \/ DispatchStep
    \/ DispatchReturn
    \/ \E a \in DelArgs \cup UpdateAddrArgs : AdminLock(a)
    \/ DelLookup
    \/ DelShutdown
    \/ UpdateLookup
    \/ \E r \in Rids : RelayUnspool(r)
    \/ \E r \in Rids : RelayTick(r)
    \/ \E a \in BagToSet(attempts) : AttemptBegin(a)
    \/ \E a \in BagToSet(attempts) : AttemptDial(a)
    \/ \E a \in BagToSet(attempts) : AttemptDeliver(a)
    \/ \E a \in BagToSet(attempts) : AttemptEnd(a)

RelaySpec == RelayInit /\ [][RelayNext]_vars

\* One spooling route, its relay and the Router, nobody at the admin ports.
\* The relay's select picks among the ready cases at random, so a case that
\* stays ready is taken; the ticker keeps firing; ResolveTCPAddr and DialTCP
\* return.  Whether a dial or a write succeeds is up to the network.
SpoolInit ==
    InitWith(<< [Key |-> "r1", Patt |-> <<>>, Addr |-> "a1", Spool |-> TRUE] >>,
             FALSE, Budget(RelayLines, 0, RelayAttempts, RelayFails))

Unspool == \E r \in Rids : RelayUnspool(r)

Tick == \E r \in Rids : RelayTick(r)

Begin == \E a \in BagToSet(attempts) : AttemptBegin(a)

Dial == \E a \in BagToSet(attempts) : AttemptDial(a)

Deliver == \E a \in BagToSet(attempts) : AttemptDeliver(a)

End == \E a \in BagToSet(attempts) : AttemptEnd(a)

SpoolNext ==
    \/ DispatchLock
    \/ DispatchStep
    \/ DispatchReturn
    \/ Unspool
    \/ Tick
    \/ Begin
    \/ Dial
    \/ Deliver
    \/ End

SpoolSpec ==
    /\ SpoolInit
    /\ [][SpoolNext]_vars
    /\ WF_vars(DispatchStep)
    /\ WF_vars(Unspool)
    /\ WF_vars(Tick)
    /\ WF_vars(Begin)
    /\ WF_vars(Dial)
    /\ WF_vars(Deliver)
    /\ WF_vars(End)

\* ------------------------------------------------------------- properties
InTable(r) == \E k \in Keys : Map[k] = r

KeysOf(list) == { list[i] : i \in 1..Len(list) }

\* The routes of the table whose regex matches txt.
Matching(txt) == { r \in Rids : InTable(r) /\ Match(routes[r].Reg, txt) }

\* The first of them in KeyList order.
FirstMatching(txt) ==
    LET at == { i \in 1..Len(KeyList) :
                  Map[KeyList[i]] # 0 /\ Match(routes[Map[KeyList[i]]].Reg, txt) }
    IN  IF at = {} THEN {}
        ELSE { Map[KeyList[CHOOSE i \in at : \A j \in at : i <= j]] }

\* C1: when Dispatch returns, the routes that were sent the line are the
\* routes of the table whose pattern matches it (without first_only), or the
\* first matching route in order and exactly that one (with first_only), and
\* the result is true exactly when a route was sent the line.
DispatchComplete ==
    [][ (disp.pc = "loop" /\ disp'.pc = "ret") =>
          /\ ~first_only => disp'.got = Matching(disp.line.txt)
          /\ first_only =>
                /\ disp'.got = FirstMatching(disp.line.txt)
                /\ (Matching(disp.line.txt) # {}) => (Cardinality(disp'.got) = 1)
          /\ disp'.routed <=> (disp'.got # {}) ]_vars

\* C2: when Add has returned without error, the new route is in the Map, its
\* relay runs, and its key is the last element of KeyList.
AddAppendsKey ==
    (adm.pc = "ret" /\ adm.op = "add" /\ adm.err = Nil) =>
        /\ Map[adm.key] # 0
        /\ relay[Map[adm.key]].pc = "run"
        /\ KeyList # <<>>
        /\ KeyList[Len(KeyList)] = adm.key

\* C3: when Del has returned without error, the key is in neither the Map nor
\* KeyList, and no Dispatch fails afterwards.
RemoveComplete ==
    /\ (adm.pc = "ret" /\ adm.op = "del" /\ adm.err = Nil) =>
          (Map[adm.key] = 0 /\ adm.key \notin KeysOf(KeyList))
    /\ ~Crashed

\* C4 (I1): whenever nobody holds the lock, the keys of KeyList are the keys
\* of the Map.
I1AtRest ==
    (lock = "free") => (KeysOf(KeyList) = { k \in Keys : Map[k] # 0 })

\* C5: an Update given an address and a pattern that returns without error has
\* stored the pattern.
UpdateAppliesBoth ==
    [][ (adm.pc = "update_conn" /\ adm'.pc = "ret" /\ adm'.err = Nil) =>
          /\ routes'[adm.r].Patt = adm.patt
          /\ routes'[adm.r].Reg = Compile(adm.patt).reg ]_vars

\* C6: the connect attempt of an Update given an address dials that address,
\* and the route's Addr is that address when the Update has returned.
UpdateAddrRetargets ==
    [][ /\ \A a \in BagToSet(attempts') :
             (a.by = "Update" /\ a.pc = "deliver") => (a.conn = adm.addr)
        /\ (adm.pc = "update_conn" /\ adm'.pc = "ret" /\ adm'.err = Nil) =>
             (routes'[adm.r].Addr = adm.addr) ]_vars

AdminFailures == {"DuplicateKey", "PatternError", "UnknownKey"}

\* C7: when Add has failed on a duplicate key or a pattern, Del or Update on
\* an unknown key, or Update on a pattern, the Map, KeyList and every
\* route's Patt, Reg and Addr are what they were when the operation took the
\* lock, and the relays started are those started then.
FailedAdminNoChange ==
    (adm.pc = "ret" /\ adm.err \in AdminFailures) =>
        /\ Table = hist.before
        /\ { r \in Rids : relay[r].pc # "none" }
             = { r \in Rids : hist.before.rts[r].running }

FailedAdminNoChangeWitness ==
    /\ adm.pc = "ret"
    /\ adm.op = "update"
    /\ adm.err = "PatternError"
    /\ nAdmin = 2
    /\ nRoutes = 2

\* C8: while a Dispatch is between its Lock and its return, no admin
\* operation is between its Lock and its return, the table is the table the
\* Dispatch locked, and every route of the table has the Reg its Patt
\* compiles to.
MutationAtomic ==
    (disp.pc = "loop") =>
        /\ adm.pc \in {"idle", "ret"}
        /\ Table = hist.dtable
        /\ \A k \in Keys :
              (Map[k] # 0) =>
                 (routes[Map[k]].Reg = Compile(routes[Map[k]].Patt).reg)

MutationAtomicWitness ==
    /\ disp.pc = "loop"
    /\ disp.i > 1
    /\ adm.pc = "ret"
    /\ adm.op = "update"
    /\ adm.err = Nil
    /\ \E r \in Rids : InTable(r) /\ routes[r].Patt = <<"b">> /\ routes[r].Key = "r1"

\* The whole of line id has been written to the connection of route r.
Written(r, id) ==
    \E i \in 1..Len(sink[r]) : sink[r][i].ln.id = id /\ sink[r][i].full

Connected(r) == relay[r].pc = "run" /\ relay[r].conn # NoConn

\* C9 as stated: a line a spooling route took while it had no connection is
\* written in full once the route has a connection again.
SpoolPersists ==
    \A id \in 1..RelayLines :
       (id \in hist.disc[1] /\ routes[1].Spool /\ Connected(1)) ~> Written(1, id)

\* C9: a line a spooling route took while it had no connection is, once the
\* route has a connection again, written in full unless a write fails or is
\* cut short first, which closes the connection and leaves the line spooled
\* for the next one.
SpoolPersistsWhileConnected ==
    \A id \in 1..RelayLines :
       (id \in hist.disc[1] /\ routes[1].Spool /\ Connected(1))
          ~> (Written(1, id) \/ ~Connected(1))

SpoolPersistsWitness ==
    \E id \in 1..RelayLines :
       /\ routes[1].Spool
       /\ id \in hist.disc[1]
       /\ Written(1, id)
       /\ ctr[1].err = 1
       /\ Connected(1)

\* The ids of the lines in a sequence of lines, or of writes.
QueuedIds(r) == { queue[r][i].id : i \in 1..Len(queue[r]) }

SinkIds(r) == { sink[r][i].ln.id : i \in 1..Len(sink[r]) }

\* C10: every line a route that does not spool took while it had no
\* connection has incremented the drop counter by one, and is neither in
\* the queue nor among the writes, whatever connection the route got since.
DropWhenNoSpool ==
    \A r \in Rids :
       (relay[r].pc # "none" /\ ~routes[r].Spool) =>
          /\ ctr[r].drop = Cardinality(hist.disc[r])
          /\ ctr[r].spool = 0
          /\ hist.disc[r] \cap (QueuedIds(r) \cup SinkIds(r)) = {}

DropWhenNoSpoolWitness ==
    \E r \in Rids :
       /\ ~routes[r].Spool
       /\ hist.disc[r] # {}
       /\ Connected(r)
       /\ sink[r] # <<>>
       /\ ctr[r].err = 1

\* How many times the whole of line id was written to the connection of r.
FullWrites(r, id) ==
    Cardinality({ i \in 1..Len(sink[r]) : sink[r][i].ln.id = id /\ sink[r][i].full })

\* How many times line id is in the queue of r.
Queued(r, id) ==
    Cardinality({ i \in 1..Len(queue[r]) : queue[r][i].id = id })

\* C11: no line is written in full to a route's connection more than once,
\* whatever the interleaving of live lines, unspooled lines, failed and
\* truncated writes and reconnects: a line is in the queue at most once, and
\* a line in the queue has not been written in full.
AtMostOnce ==
    \A r \in Rids : \A id \in 1..nLines :
       /\ FullWrites(r, id) <= 1
       /\ Queued(r, id) <= 1
       /\ (Queued(r, id) = 1) => (FullWrites(r, id) = 0)

AtMostOnceWitness ==
    \E r \in Rids : \E id \in 1..nLines :
       /\ FullWrites(r, id) = 1
       /\ \E i \in 1..Len(sink[r]) : sink[r][i].ln.id = id /\ ~sink[r][i].full
       /\ nLines = 2
       /\ Connected(r)

\* Dispatch hands the lines to route.ch in the order they were submitted and
\* numbers them in that order, and a line's first Put happens when the relay
\* takes it off ch: the order of first Put is the order of the ids.
\* This step of r takes the head of the queue and writes it in full.
DrainedWrite(r) ==
    /\ queue[r] # <<>>
    /\ queue'[r] = Tail(queue[r])
    /\ sink'[r] = Append(sink[r], [ln |-> Head(queue[r]), full |-> TRUE])

\* C12: lines read from the queue are written in the order of their first
\* Put, also after the write of a line read from the queue failed and the
\* line was Put again: when such a line is written in full, no line that was
\* Put before it is still waiting in the queue.
DrainInOrder ==
    [][\A r \in Rids :
          DrainedWrite(r) =>
             \A i \in 1..Len(queue'[r]) : queue'[r][i].id > Head(queue[r]).id]_vars

\* A step in which net.ResolveTCPAddr or net.DialTCP of some updateConn
\* returns an error.
DialFails ==
    \E a \in BagToSet(attempts) :
       /\ a.pc = "dial"
       /\ \E res \in DialOutcomes \ {"ok"} :
             attempts' = SetAttempt(a, [a EXCEPT !.pc = "end",
                                                 !.err = Returned(a, res)])

\* C13: if from some point on no resolve and no dial fails (the sink has
\* become reachable and stays so), a running relay without a connection
\* gets one: the ticker starts an updateConn when there is no connection and
\* none is being made, a failed one leaves conn nil for a later tick, and a
\* successful one hands its connection to the relay.
ReconnectLive ==
    (<>[][~DialFails]_vars) =>
        \A r \in Rids :
           (relay[r].pc = "run" /\ relay[r].conn = NoConn) ~> Connected(r)

\* A connection was lost to a failed write after a failed dial, and the relay
\* has a connection again.
ReconnectLiveWitness ==
    \E r \in Rids :
       /\ ctr[r].err > 0
       /\ Connected(r)
       /\ relay[r].conn_updates = 0

\* The relay of r holds a connection it has not closed: process_packet is
\* the only caller of conn.Close() and sets conn to nil with it.
ConnOpen(r) == relay[r].conn # NoConn

\* The DiskQueue of r exists and is not closed: Run makes it for a spooling
\* route, and no statement of the package closes it.
QueueOpen(r) == routes[r].running /\ routes[r].Spool

\* C14: a relay that has returned on the shutdown signal has closed its
\* connection, if it had one, and the DiskQueue of a spooling route.
ShutdownReleases ==
    \A r \in Rids :
       (relay[r].pc = "exit") => (~ConnOpen(r) /\ ~QueueOpen(r))

\* ----------------------------------------------- the table before Routes.Run
\* NewRoutes and the KeyList loop of main: the configured routes are in the
\* Map and none has been Run.
StartInit ==
    /\ \E cfg \in Configs :
          /\ KeyList = [i \in 1..Len(cfg) |-> cfg[i].Key]
          /\ Map = [k \in Keys |->
                      IF \E i \in 1..Len(cfg) : cfg[i].Key = k
                      THEN CHOOSE i \in 1..Len(cfg) : cfg[i].Key = k
                      ELSE 0]
          /\ routes = [r \in Rids |->
                         IF r <= Len(cfg)
                         THEN NewRoute(cfg[r].Key, cfg[r].Patt, cfg[r].Addr,
                                       cfg[r].Spool).rt
                         ELSE NoRoute]
          /\ nRoutes = Len(cfg)
    /\ lock = "free"
    /\ relay = [r \in Rids |-> NoRelay]
    /\ attempts = EmptyBag
    /\ open = [r \in Rids |-> 0]
    /\ queue = [r \in Rids |-> <<>>]
    /\ sink = [r \in Rids |-> <<>>]
    /\ ctr = [r \in Rids |-> NoCtr]
    /\ nFails = 0
    /\ first_only = FALSE
    /\ disp = IdleDisp
    /\ nLines = 0
    /\ adm = IdleAdm
    /\ nAdmin = 0
    /\ hist = [taken |-> [r \in Rids |-> {}], disc |-> [r \in Rids |-> {}],
               before |-> NoTable, dtable |-> NoTable]
    /\ bud = Budget(0, TableAdmin, RelayAttempts, 0)

\* Routes.Run, called once and with no other call in progress: route.Run()
\* for every route of the Map.
RoutesRun ==
    /\ ~Crashed
    /\ adm.pc \in {"idle", "ret"}
    /\ lock = "free"
    /\ \E r \in Rids : InTable(r)
    /\ \A r \in Rids : InTable(r) => ~routes[r].running
    /\ routes' = [r \in Rids |->
                    IF InTable(r) THEN [routes[r] EXCEPT !.running = TRUE]
                    ELSE routes[r]]
    /\ relay' = [r \in Rids |-> IF InTable(r) THEN RunRelay ELSE relay[r]]
    /\ attempts' = attempts (+)
                     SetToBag({ NewAttempt(r, "go") : r \in { x \in Rids : InTable(x) } })
    /\ UNCHANGED << KeyList, Map, lock, nRoutes, open, queue, sink, ctr,
                    nFails, first_only, disp, nLines, adm, nAdmin, hist, bud >>

StartNext ==
    \/ RoutesRun
    \/ \E a \in DelArgs : AdminLock(a)
    \/ DelLookup
    \/ DelShutdown
    \/ Tick
    \/ Begin
    \/ Dial
    \/ Deliver
    \/ End

StartSpec == StartInit /\ [][StartNext]_vars

\* C15: when Del has returned the error of Route.Shutdown for a route that
\* was not running, the Map and KeyList are what they were when Del took the
\* lock: the route is still in the table.
DelNotRunningNoChange ==
    (adm.pc = "ret" /\ adm.op = "del" /\ adm.err = "NotRunning") =>
        Table = hist.before

\* This step of r is a write that returned an error or a short count: they
\* are the steps that increment the Err counter.
WriteFailed(r) == ctr'[r].err = ctr[r].err + 1

\* C16: a write that returns an error or a short count closes the connection
\* and sets conn to nil in the same step, counts one error, and on a spooling
\* route puts the line on the queue; so every line the relay of a spooling
\* route has taken off its ch is, while the relay runs, written in full or in
\* the queue.
WriteFailureHandled ==
    /\ [][\A r \in Rids :
             WriteFailed(r) =>
                /\ relay[r].conn # NoConn
                /\ relay'[r].conn = NoConn
                /\ open'[r] = open[r] - 1
                /\ ctr'[r].out = ctr[r].out + 1
                /\ routes[r].Spool =>
                      /\ queue'[r] # <<>>
                      /\ LET put == queue'[r][Len(queue'[r])] IN
                         /\ put.id \in hist'.taken[r]
                         /\ \A i \in 1..Len(sink'[r]) :
                               sink'[r][i].ln.id = put.id => ~sink'[r][i].full
                /\ ~routes[r].Spool => queue'[r] = queue[r]]_vars
    /\ [](\A r \in Rids :
             (relay[r].pc = "run" /\ routes[r].Spool) =>
                \A id \in hist.taken[r] : Written(r, id) \/ id \in QueuedIds(r))

\* A spooling route lost its connection to a failed write of a line it took
\* while connected, and holds that line in the queue.
WriteFailureHandledWitness ==
    \E r \in Rids :
       /\ relay[r].pc = "run"
       /\ routes[r].Spool
       /\ ctr[r].err = 1
       /\ relay[r].conn = NoConn
       /\ \E id \in hist.taken[r] \ hist.disc[r] :
             id \in QueuedIds(r) /\ ~Written(r, id)

\* C17: a route never has more than one connection open, whichever updateConn
\* calls race (the relay's eager one, the ticker's, Routes.Update's): a
\* connection is dialled and delivered only after the previous one was
\* closed and conn set to nil.
OneConnection == \A r \in Rids : open[r] <= 1

\* Sequence s is the beginning of sequence t.
IsPrefix(s, t) == Len(s) <= Len(t) /\ SubSeq(t, 1, Len(s)) = s

\* This step takes a record out of the queue of r: what was in the queue is
\* no longer the beginning of it.
LeavesQueue(r) == ~IsPrefix(queue[r], queue'[r])

\* C18: a record leaves the queue of a route only in a step that starts with
\* a connection on a spooling route; while conn is nil the queue only grows.
DrainGated ==
    [][\A r \in Rids :
          LeavesQueue(r) => (relay[r].conn # NoConn /\ routes[r].Spool)]_vars

\* A line spooled while there was no connection has left the queue and been
\* written, with no write failed so far.
DrainGatedWitness ==
    \E r \in Rids :
       /\ routes[r].Spool
       /\ ctr[r].err = 0
       /\ queue[r] = <<>>
       /\ \E id \in hist.disc[r] : Written(r, id)

\* The updateConn calls of r whose inConnUpdate <- true the relay has
\* received and whose deferred inConnUpdate <- false it has not.
Pending(r) ==
    LET as == { a \in BagToSet(attempts) : a.r = r /\ a.pc # "begin" } IN
    BagCardinality([a \in as |-> attempts[a]])

\* C19: conn_updates is never negative and is the number of updateConn calls
\* of the route between their two messages on inConnUpdate, however many
\* calls race; it is 0 when every call has returned.
ConnUpdatesExact ==
    \A r \in Rids :
       /\ relay[r].conn_updates >= 0
       /\ relay[r].conn_updates = Pending(r)

\* Two updateConn calls of a route are between their two messages at once,
\* one of them about to send its second.
ConnUpdatesExactWitness ==
    \E r \in Rids :
       /\ relay[r].conn_updates = 2
       /\ \E a \in BagToSet(attempts) : a.r = r /\ a.pc = "end"
       /\ \E a \in BagToSet(attempts) : a.r = r /\ a.pc = "deliver"

\* updateConn call a is at a send on inConnUpdate or connUpdates and the
\* relay of its route, the only receiver of both channels, has returned: the
\* channels are unbuffered and a returned relay never runs again, so the
\* call stays at that send for ever.
Blocked(a) == relay[a.r].pc = "exit" /\ a.pc \in {"begin", "deliver", "end"}

\* C20: every updateConn call gets to its return, also one in progress when
\* the relay receives the shutdown: no call is left at a send that nobody
\* will receive, and none holds there a connection it has dialled.
AttemptsTerminate == \A a \in BagToSet(attempts) : ~Blocked(a)

\* This step is the ticker case of the relay of r starting an updateConn:
\* the relay is at its select and stays as it is, and one more call of r is
\* at its first step.
TickSpawned(r) ==
    /\ relay[r].pc = "run"
    /\ relay' = relay
    /\ attempts' = attempts (+) SetToBag({NewAttempt(r, "go")})

\* C21: when the ticker case starts an updateConn for a route, no other
\* updateConn of that route (the relay's eager one, an earlier tick's, one
\* called by Routes.Update) has been started and has not returned.
TickNoOverlap ==
    [][\A r \in Rids : TickSpawned(r) => InFlight(r) = 0]_vars

=============================================================================
